---------------------------- MODULE Spec2Model ----------------------------
(***************************************************************************)
(* Model of backend/services/blueprint_engine.py (structra.ai): the        *)
(* planning entry point generate_blueprint with its attempt / validate /   *)
(* fallback policy, the validator _validate_blueprint, the conversion of   *)
(* an external payload (_ai_generate_blueprint) and the deterministic      *)
(* center-corridor pipeline (_procedural_fallback and                      *)
(* _generate_center_corridor_flat).                                        *)
(*                                                                         *)
(* Lengths are fixed-point integers in TENTHS of a length unit: every      *)
(* coordinate the pipeline stores has passed through round(v, 1).  Round1  *)
(* rounds an exact quotient to the nearest tenth; at an exact decimal tie  *)
(* it rounds half to even, which is what Python's round() does on a value  *)
(* that is exactly representable.  A binary64 product that is not exactly  *)
(* representable can land 0.1 to either side of such a tie; no property    *)
(* stated below depends on the direction of a tie.                         *)
(***************************************************************************)
EXTENDS Integers, Sequences, FiniteSets, TLC

VARIABLES
    pc,         \* position of the planning call: idle, client, external, validating, deterministic, done
    input,      \* the ProjectInput of the current call
    client,     \* get_ai_client(): TRUE when both environment variables are set
    response,   \* what the external collaborator answered (raise / payload)
    candidate,  \* the Optional[BlueprintData] _ai_generate_blueprint returned
    result,     \* the BlueprintData generate_blueprint returned
    path,       \* which return statement produced result: "external" or "deterministic"
    raised,     \* TRUE when an exception left generate_blueprint
    requests,   \* external requests issued during the current call
    calls,      \* runs of the deterministic pipeline so far (history counter)
    runs,       \* history: the remembered runs of the deterministic pipeline, [input, call, data]
    bp,         \* a BlueprintData handed to _validate_blueprint directly
    verdict     \* what _validate_blueprint answered for bp

vars == <<pc, input, client, response, candidate, result, path, raised,
          requests, calls, runs, bp, verdict>>

(***************************************************************************)
(* Bounds of the model.                                                    *)
(***************************************************************************)
MaxFloors == 2       \* floors of a ProjectInput, and floors of an external candidate
MaxFlats == 2        \* flats_per_floor
MaxBedrooms == 1
MaxBathrooms == 1
MaxBalconies == 1
MaxCalls == 3        \* runs of the deterministic pipeline in one history

\* area_sqft values: 100 (width and depth both raised to the minimum envelope),
\* 1400 (depth alone raised), 2000 (the default; neither raised)
Areas == {100, 1400, 2000}

\* the ProjectInput fields the layout engine reads, within the bounds of models/project.py
ProjectInputs ==
    [area_sqft : Areas,
     floors : 1..MaxFloors,
     flat_config : [flats_per_floor : 1..MaxFlats, bedrooms : 1..MaxBedrooms,
                    bathrooms : 1..MaxBathrooms, balconies : 0..MaxBalconies],
     amenities : [lift : BOOLEAN]]

(***************************************************************************)
(* Program constants, in tenths.                                           *)
(***************************************************************************)
min_width == 400
min_depth == 300
corridor_h == 50
core_w == 80
lift_w == 40
lift_h == 40

None == <<>>
Some(v) == <<v>>

Max(a, b) == IF a >= b THEN a ELSE b
Min(a, b) == IF a <= b THEN a ELSE b

(***************************************************************************)
(* round(num / den, 1) on a value already scaled to tenths: the nearest    *)
(* integer to num / den, ties to even.  den > 0.                           *)
(***************************************************************************)
Round1(num, den) ==
    LET q == num \div den
        r == num % den
    IN  IF 2 * r < den THEN q
        ELSE IF 2 * r > den THEN q + 1
        ELSE IF q % 2 = 0 THEN q ELSE q + 1

RECURSIVE SqrtIter(_, _, _)
SqrtIter(n, lo, hi) ==
    IF lo >= hi THEN lo
    ELSE LET mid == (lo + hi + 1) \div 2
         IN  IF mid * mid <= n THEN SqrtIter(n, mid, hi) ELSE SqrtIter(n, lo, mid - 1)

\* the nearest integer to sqrt(n): w = floor(sqrt n), and w + 1 when n > (w + 1/2)^2
SqrtRound(n) ==
    LET w == SqrtIter(n, 0, Min(n, 46340))
    IN  IF n - w * w <= w THEN w ELSE w + 1

\* width = round(math.sqrt(area) * 1.4, 1), in tenths: the nearest integer to 14 * sqrt(area)
ApproxWidth(area) == SqrtRound(196 * area)

\* depth = round(area / width, 1), in tenths
ApproxDepth(area) == Round1(area * 100, ApproxWidth(area))


(***************************************************************************)
(* BlueprintRoom, and the formatted identifiers and names.                 *)
(***************************************************************************)
BlueprintRoom(id, name, x, y, width, height, type) ==
    [id |-> id, name |-> name, x |-> x, y |-> y,
     width |-> width, height |-> height, type |-> type]

\* f"f{floor_idx}-flat{flat_idx+1}"
FlatPrefix(floor_idx, flat_idx) ==
    "f" \o ToString(floor_idx) \o "-flat" \o ToString(flat_idx + 1)

(***************************************************************************)
(* _generate_center_corridor_flat: the rooms of one flat.  shaft_local_x   *)
(* is None or Some(offset of the plumbing shaft from the flat's left       *)
(* edge).                                                                  *)
(***************************************************************************)
BathRooms(prefix, num_baths, plumbing_zone_x, bath_y, bath_w, bath_h) ==
    [b \in 1..num_baths |->
        BlueprintRoom(prefix \o "-bath" \o ToString(b), "Bath " \o ToString(b),
                      plumbing_zone_x + (b - 1) * bath_w, bath_y,
                      bath_w, bath_h, "bathroom")]

\* the bedroom loop: equal slots of bed_w, the last one stretched to the flat's right edge
BedRooms(prefix, num_beds, bed_area_x, bed_y, bed_available_w, bed_h, x0, flat_width) ==
    LET bed_w == Round1(bed_available_w, num_beds)
    IN  [b \in 1..num_beds |->
            LET bx_pos == bed_area_x + (b - 1) * bed_w
                actual_w == IF b = num_beds THEN x0 + flat_width - bx_pos ELSE bed_w
            IN  BlueprintRoom(prefix \o "-bed" \o ToString(b), "Bedroom " \o ToString(b),
                              bx_pos, bed_y, actual_w, bed_h, "bedroom")]

\* Fault variant: top-side balconies always hung above the flat, at y0 - balcony_h.
BalconyRoomsAbove(prefix, num_balconies, x0, y0, flat_width, flat_depth, balcony_h, side) ==
    IF num_balconies > 0
    THEN LET balcony_w == Round1(flat_width, num_balconies)
         IN  [b \in 1..num_balconies |->
                 BlueprintRoom(prefix \o "-balcony" \o ToString(b),
                               "Balcony " \o ToString(b),
                               x0 + (b - 1) * balcony_w,
                               IF side = "top" THEN y0 - balcony_h ELSE y0 + flat_depth,
                               balcony_w, balcony_h, "balcony")]
    ELSE <<>>

BalconyRooms(prefix, num_balconies, x0, y0, flat_width, flat_depth, balcony_h, side) ==
    IF num_balconies > 0
    THEN LET balcony_w == Round1(flat_width, num_balconies)
         IN  [b \in 1..num_balconies |->
                 BlueprintRoom(prefix \o "-balcony" \o ToString(b),
                               "Balcony " \o ToString(b),
                               x0 + (b - 1) * balcony_w,
                               IF side = "top"
                               THEN (IF y0 > balcony_h THEN y0 - balcony_h ELSE y0)
                               ELSE y0 + flat_depth,
                               balcony_w, balcony_h, "balcony")]
    ELSE <<>>

\* Fault variant: the guard compares against 8 instead of 3.
BottomBedroomsPlacedDeep(num_beds, bed_h) == num_beds > 0 /\ bed_h > 80

\* "if num_beds > 0 and bed_h > 3" of the bottom side
BottomBedroomsPlaced(num_beds, bed_h) == num_beds > 0 /\ bed_h > 30

_generate_center_corridor_flat(floor_idx, flat_idx, start_x, start_y, flat_width, flat_depth, flat_cfg, side, shaft_local_x) ==
    LET prefix == FlatPrefix(floor_idx, flat_idx)
        x0 == start_x
        y0 == start_y
        num_beds == flat_cfg.bedrooms
        num_baths == flat_cfg.bathrooms
        num_balconies == flat_cfg.balconies
        bath_w == Round1(Min(flat_width * 18, 7000), 100)
        bath_h == Round1(Min(flat_depth * 35, 6000), 100)
        balcony_h == Round1(Min(flat_depth * 15, 4000), 100)
        plumbing_zone_x == IF shaft_local_x # None
                           THEN start_x + shaft_local_x[1]
                           ELSE Round1(x0 * 100 + flat_width * 12, 100)
        bath_y == IF side = "top" THEN y0 + flat_depth - bath_h ELSE y0
        total_bath_w == num_baths * bath_w
        remaining_w == flat_width - total_bath_w
        kitchen_w0 == Round1(remaining_w * 45, 100)
        kitchen_w == IF kitchen_w0 < 60 THEN Round1(remaining_w, 2) ELSE kitchen_w0
        living_w == IF kitchen_w0 < 60 THEN remaining_w - kitchen_w
                    ELSE Round1(remaining_w * 55, 100)
        living_h == Round1(flat_depth, 2)
        kitchen_h == Round1(flat_depth * 35, 100)
        living_x == IF plumbing_zone_x = x0 THEN x0 + total_bath_w ELSE x0
        kitchen_x == IF plumbing_zone_x = x0 THEN x0 + total_bath_w + living_w
                     ELSE x0 + living_w
        bed_available_w == flat_width - total_bath_w
        bed_area_x == IF plumbing_zone_x = x0 THEN x0 + total_bath_w ELSE x0
        baths == BathRooms(prefix, num_baths, plumbing_zone_x, bath_y, bath_w, bath_h)
        balconies == BalconyRooms(prefix, num_balconies, x0, y0, flat_width,
                                  flat_depth, balcony_h, side)
    IN  IF side = "top"
        THEN LET bed_y == y0 + living_h
                 bed_available_h == flat_depth - living_h
             IN  baths
                 \o << BlueprintRoom(prefix \o "-living", "Living Room",
                                     living_x, y0, living_w, living_h, "living"),
                       BlueprintRoom(prefix \o "-kitchen", "Kitchen",
                                     kitchen_x, y0, kitchen_w, kitchen_h, "kitchen") >>
                 \o (IF num_beds > 0
                     THEN BedRooms(prefix, num_beds, bed_area_x, bed_y, bed_available_w,
                                   bed_available_h, x0, flat_width)
                     ELSE <<>>)
                 \o balconies
        ELSE LET bed_area_y == y0 + bath_h
                 bed_h == flat_depth - Max(living_h, kitchen_h)
             IN  baths
                 \o << BlueprintRoom(prefix \o "-living", "Living Room",
                                     living_x, y0 + flat_depth - living_h,
                                     living_w, living_h, "living"),
                       BlueprintRoom(prefix \o "-kitchen", "Kitchen",
                                     kitchen_x, y0 + flat_depth - kitchen_h,
                                     kitchen_w, kitchen_h, "kitchen") >>
                 \o (IF BottomBedroomsPlaced(num_beds, bed_h)
                     THEN BedRooms(prefix, num_beds, bed_area_x, bed_area_y,
                                   bed_available_w, bed_h, x0, flat_width)
                     ELSE <<>>)
                 \o balconies

(***************************************************************************)
(* _build_blueprint_data: the output bundle.  The fields derived from the  *)
(* layout are kept (floors, corridors, the component counts, the design    *)
(* label of the overview and the terrace/roof summaries); the water-tank   *)
(* list and the fixed electrical / water line descriptors depend on the    *)
(* utilities alone and are left out.                                       *)
(***************************************************************************)
RECURSIVE SumRooms(_)
SumRooms(floors) ==
    IF floors = <<>> THEN 0 ELSE Len(Head(floors).rooms) + SumRooms(Tail(floors))

_build_blueprint_data(inp, floors, corridors, width, depth, design_label) ==
    [floors |-> floors,
     corridors |-> corridors,
     terrace |-> [area_sqft |-> Round1(width * depth, 10)],
     roof |-> [type |-> IF inp.floors > 1 THEN "RCC flat roof" ELSE "Sloped roof",
               area_sqft |-> Round1(width * depth, 10)],
     overview |-> design_label,
     component_breakdown |->
        [Floors |-> inp.floors,
         FlatsPerFloor |-> inp.flat_config.flats_per_floor,
         TotalFlats |-> inp.flat_config.flats_per_floor * inp.floors,
         TotalRooms |-> SumRooms(floors)]]

(***************************************************************************)
(* _procedural_fallback: the deterministic center-corridor pipeline.       *)
(***************************************************************************)
\* Fault variant: the width without its minimum.
EnvelopeWidthUnclamped(inp) == ApproxWidth(inp.area_sqft)

\* width = max(round(sqrt(area) * 1.4, 1), 40)
EnvelopeWidth(inp) == Max(ApproxWidth(inp.area_sqft), min_width)

\* depth = max(round(area / width, 1), 30), width being the unclamped one
EnvelopeDepth(inp) == Max(ApproxDepth(inp.area_sqft), min_depth)

\* corridor_y = round(depth / 2 - corridor_h / 2, 1)
CorridorY(depth) == Round1(depth - corridor_h, 2)

\* core_x = round(width / 2 - core_w / 2, 1)
CoreX(width) == Round1(width - core_w, 2)

\* flats_top, after the rebalance that forces one flat below the corridor
FlatsTop(flats_per_floor) ==
    LET flats_top == Max(1, flats_per_floor \div 2)
    IN  IF flats_per_floor - flats_top = 0 THEN Max(1, flats_per_floor - 1) ELSE flats_top

\* Fault variant: the split without the forced flat below the corridor.
FlatsBottomUnforced(flats_per_floor) == flats_per_floor - Max(1, flats_per_floor \div 2)

FlatsBottom(flats_per_floor) ==
    LET flats_top == Max(1, flats_per_floor \div 2)
    IN  IF flats_per_floor - flats_top = 0 THEN 1 ELSE flats_per_floor - flats_top

\* Fault variant: the staircase keeps the whole core width next to a lift.
CoreRoomsWideStairs(f, inp, width, corridor_y, core_x) ==
    << BlueprintRoom("f" \o ToString(f) \o "-corridor", "Corridor",
                     0, corridor_y, width, corridor_h, "corridor") >>
    \o (IF inp.amenities.lift
        THEN << BlueprintRoom("f" \o ToString(f) \o "-lift", "Lift",
                              core_x, corridor_y + 5, lift_w, lift_h, "elevator") >>
        ELSE <<>>)
    \o << BlueprintRoom("f" \o ToString(f) \o "-stairs", "Staircase",
                        core_x, corridor_y + 5, core_w, corridor_h - 10, "staircase") >>

\* the corridor, then the lift and the staircase (or the staircase alone)
CoreRooms(f, inp, width, corridor_y, core_x) ==
    << BlueprintRoom("f" \o ToString(f) \o "-corridor", "Corridor",
                     0, corridor_y, width, corridor_h, "corridor") >>
    \o (IF inp.amenities.lift
        THEN << BlueprintRoom("f" \o ToString(f) \o "-lift", "Lift",
                              core_x, corridor_y + 5, lift_w, lift_h, "elevator"),
                BlueprintRoom("f" \o ToString(f) \o "-stairs", "Staircase",
                              core_x + lift_w, corridor_y + 5,
                              core_w - lift_w, corridor_h - 10, "staircase") >>
        ELSE << BlueprintRoom("f" \o ToString(f) \o "-stairs", "Staircase",
                              core_x, corridor_y + 5,
                              core_w, corridor_h - 10, "staircase") >>)

\* flat_x = round(fi * (width / n), 1): the left edge of flat fi (0-based) of n on one side
FlatX(fi, n, width) == Round1(fi * width, n)

\* fw = round(width / n, 1), and round(width - flat_x, 1) for the last flat of the side
FlatW(fi, n, width) == IF fi = n - 1 THEN width - FlatX(fi, n, width) ELSE Round1(width, n)

\* the rooms of flat fi (0-based) of n flats on one side; the first flat gets the shaft
SideFlat(f, fi, flat_idx, n, width, start_y, region_depth, flat_cfg, side) ==
    LET flat_x == FlatX(fi, n, width)
        fw == FlatW(fi, n, width)
        shaft_x == Round1(width * 15, 100)
        shaft_x_in_flat == IF fi = 0 THEN Some(shaft_x - flat_x) ELSE None
    IN  _generate_center_corridor_flat(f, flat_idx, flat_x, start_y, fw, region_depth,
                                       flat_cfg, side, shaft_x_in_flat)

RoomIds(rooms) == [i \in 1..Len(rooms) |-> rooms[i].id]

FlatEntry(f, flat_idx, flat_rooms) ==
    [flat_id |-> FlatPrefix(f, flat_idx),
     label |-> "Flat " \o ToString(flat_idx + 1),
     rooms |-> RoomIds(flat_rooms)]

RECURSIVE Flatten(_)
Flatten(seqs) == IF seqs = <<>> THEN <<>> ELSE Head(seqs) \o Flatten(Tail(seqs))

\* one iteration of the loop over range(floors_count)
ProceduralFloor(f, inp, width, depth) ==
    LET flat_cfg == inp.flat_config
        corridor_y == CorridorY(depth)
        top_depth == corridor_y
        bottom_depth == depth - corridor_y - corridor_h
        bottom_y == corridor_y + corridor_h
        flats_top == FlatsTop(flat_cfg.flats_per_floor)
        flats_bottom == FlatsBottom(flat_cfg.flats_per_floor)
        top == [i \in 1..flats_top |->
                   SideFlat(f, i - 1, i - 1, flats_top, width, 0, top_depth,
                            flat_cfg, "top")]
        bottom == [i \in 1..flats_bottom |->
                      SideFlat(f, i - 1, flats_top + i - 1, flats_bottom, width,
                               bottom_y, bottom_depth, flat_cfg, "bottom")]
    IN  [floor |-> f,
         label |-> IF f = 0 THEN "Ground Floor" ELSE "Floor " \o ToString(f),
         rooms |-> CoreRooms(f, inp, width, corridor_y, CoreX(width))
                   \o Flatten(top) \o Flatten(bottom),
         flats |-> [i \in 1..flats_top |-> FlatEntry(f, i - 1, top[i])]
                   \o [i \in 1..flats_bottom |->
                          FlatEntry(f, flats_top + i - 1, bottom[i])]]

\* Fault variant: floors numbered from a counter that survives between runs.
ProceduralWithCounter(inp) ==
    LET width == EnvelopeWidth(inp)
        depth == EnvelopeDepth(inp)
        floors == [k \in 1..inp.floors |->
                      ProceduralFloor(calls + k - 1, inp, width, depth)]
        corridors == [k \in 1..inp.floors |->
                         [floor |-> k - 1, y |-> CorridorY(depth), height |-> corridor_h]]
    IN  _build_blueprint_data(inp, floors, corridors, width, depth, "Procedural")

_procedural_fallback(inp) ==
    LET width == EnvelopeWidth(inp)
        depth == EnvelopeDepth(inp)
        floors == [k \in 1..inp.floors |-> ProceduralFloor(k - 1, inp, width, depth)]
        corridors == [k \in 1..inp.floors |->
                         [floor |-> k - 1, y |-> CorridorY(depth), height |-> corridor_h]]
    IN  _build_blueprint_data(inp, floors, corridors, width, depth, "Procedural")

(***************************************************************************)
(* _validate_blueprint: the early returns, as one conjunction.             *)
(***************************************************************************)
FloorValid(floor) ==
    /\ Len(floor.rooms) >= 3
    /\ \E i \in 1..Len(floor.rooms) : floor.rooms[i].type = "corridor"
    /\ \A i \in 1..Len(floor.rooms) :
          LET room == floor.rooms[i]
          IN  /\ ~(room.width <= 0 \/ room.height <= 0)
              /\ ~(room.x < -10 \/ room.y < -10)

\* Fault variant: the loop returns after its first iteration.
ValidateFirstFloorOnly(b) ==
    /\ b.floors # <<>>
    /\ FloorValid(b.floors[1])

_validate_blueprint(b) ==
    /\ b.floors # <<>>
    /\ \A k \in 1..Len(b.floors) : FloorValid(b.floors[k])

(***************************************************************************)
(* _ai_generate_blueprint, from the collaborator's answer on.  An answer   *)
(* is [kind |-> "error", exc |-> e] (the request raised), or               *)
(* [kind |-> "text"] (content that json.loads rejects), or                 *)
(* [kind |-> "json", raw |-> r] with r a record whose keys may be missing. *)
(* The outcome is [tag |-> "raise", exc |-> e], [tag |-> "none"] or        *)
(* [tag |-> "data", data |-> BlueprintData].                               *)
(***************************************************************************)
RoomKeys == {"id", "name", "x", "y", "width", "height"}

\* BlueprintRoom(id=..., width=max(2, float(...)), type=room_data.get("type", "other"))
ConvertRoom(room_data) ==
    BlueprintRoom(room_data.id, room_data.name, room_data.x, room_data.y,
                  Max(20, room_data.width), Max(20, room_data.height),
                  IF "type" \in DOMAIN room_data THEN room_data.type ELSE "other")

RawRooms(floor_data) == IF "rooms" \in DOMAIN floor_data THEN floor_data.rooms ELSE <<>>

ConvertFloor(floor_data) ==
    [floor |-> floor_data.floor,
     label |-> floor_data.label,
     rooms |-> [i \in 1..Len(RawRooms(floor_data)) |-> ConvertRoom(RawRooms(floor_data)[i])],
     flats |-> IF "flats" \in DOMAIN floor_data THEN floor_data.flats ELSE <<>>]

\* a subscript on a missing key raises KeyError
FloorRaises(floor_data) ==
    \/ \E i \in 1..Len(RawRooms(floor_data)) : ~(RoomKeys \subseteq DOMAIN RawRooms(floor_data)[i])
    \/ ~({"floor", "label"} \subseteq DOMAIN floor_data)

\* corr = next((r for r in floor.rooms if r.type == "corridor"), None): the first corridor
FirstCorridor(rooms) ==
    LET idx == {i \in 1..Len(rooms) : rooms[i].type = "corridor"}
    IN  IF idx = {} THEN None
        ELSE Some(rooms[CHOOSE i \in idx : \A j \in idx : i <= j])

RECURSIVE CorridorList(_)
CorridorList(floors) ==
    IF floors = <<>> THEN <<>>
    ELSE LET corr == FirstCorridor(Head(floors).rooms)
         IN  (IF corr # None
              THEN << [floor |-> Head(floors).floor, y |-> corr[1].y,
                       height |-> corr[1].height] >>
              ELSE <<>>) \o CorridorList(Tail(floors))

_ai_generate_blueprint(resp, inp) ==
    IF resp.kind = "error" THEN [tag |-> "raise", exc |-> resp.exc]
    ELSE IF resp.kind = "text" THEN [tag |-> "raise", exc |-> "JSONDecodeError"]
    ELSE LET raw == resp.raw
         IN  IF ~("floors" \in DOMAIN raw) THEN [tag |-> "none"]
             ELSE IF \E k \in 1..Len(raw.floors) : FloorRaises(raw.floors[k])
             THEN [tag |-> "raise", exc |-> "KeyError"]
             ELSE LET building_w == IF "building_width" \in DOMAIN raw
                                    THEN raw.building_width
                                    ELSE ApproxWidth(inp.area_sqft)
                      building_d == IF "building_depth" \in DOMAIN raw
                                    THEN raw.building_depth
                                    ELSE ApproxDepth(inp.area_sqft)
                      floors == [k \in 1..Len(raw.floors) |-> ConvertFloor(raw.floors[k])]
                  IN  [tag |-> "data",
                       data |-> _build_blueprint_data(inp, floors, CorridorList(floors),
                                                      building_w, building_d, "AI-designed")]

(***************************************************************************)
(* The external collaborator's possible answers (the environment of        *)
(* generate_blueprint, not code of the repository): a sound candidate of   *)
(* n floors, with at most one floor carrying one defect, and each floor    *)
(* numbered either by its position or 0.                                   *)
(***************************************************************************)
Defects == {"none", "two_corridors", "no_type", "short", "negative", "outside",
            "dup_id", "reused_ids", "zero_width", "missing_key", "no_floor_key"}

Without(rec, key) == [k \in DOMAIN rec \ {key} |-> rec[k]]

\* three rooms tiling the top of a 40.0 x 30.0 plate, ids prefixed by the position
SoundRooms(p) ==
    LET pre == "f" \o ToString(p - 1)
    IN  << [id |-> pre \o "-corridor", name |-> "Corridor", x |-> 0, y |-> 125,
            width |-> 400, height |-> 50, type |-> "corridor"],
           [id |-> pre \o "-flat1-living", name |-> "Living Room", x |-> 0, y |-> 0,
            width |-> 200, height |-> 125, type |-> "living"],
           [id |-> pre \o "-flat1-kitchen", name |-> "Kitchen", x |-> 200, y |-> 0,
            width |-> 200, height |-> 125, type |-> "kitchen"] >>

DefectRooms(p, d) ==
    LET r == SoundRooms(p)
    IN  CASE d = "two_corridors" ->
                r \o << [r[1] EXCEPT !.id = "f" \o ToString(p - 1) \o "-corridor2"] >>
          [] d = "no_type" -> << Without(r[1], "type"), r[2], r[3] >>
          [] d = "short" -> << r[1], r[2] >>
          [] d = "negative" -> << r[1], [r[2] EXCEPT !.x = -20], r[3] >>
          [] d = "outside" -> << r[1], r[2], [r[3] EXCEPT !.x = 9000] >>
          [] d = "dup_id" -> << r[1], r[2], [r[3] EXCEPT !.id = r[2].id] >>
          [] d = "reused_ids" -> SoundRooms(1)
          [] d = "zero_width" -> << r[1], [r[2] EXCEPT !.width = 0], r[3] >>
          [] d = "missing_key" -> << r[1], Without(r[2], "x"), r[3] >>
          [] OTHER -> r

RawFloor(p, idx, d) ==
    LET fl == [floor |-> idx,
               label |-> IF idx = 0 THEN "Ground Floor" ELSE "Floor " \o ToString(idx),
               rooms |-> DefectRooms(p, d)]
    IN  IF d = "no_floor_key" THEN Without(fl, "floor") ELSE fl

RawFloorSeqs ==
    {<<>>} \cup
    UNION { { [p \in 1..n |-> RawFloor(p, IF byPos[p] THEN p - 1 ELSE 0,
                                       IF p = q THEN d ELSE "none")] :
                byPos \in [1..n -> BOOLEAN], q \in 1..n, d \in Defects } :
            n \in 1..MaxFloors }

RawPayloads ==
    { [building_width |-> 400, building_depth |-> 300] }
    \cup { [floors |-> fs, building_width |-> 400, building_depth |-> 300] :
            fs \in RawFloorSeqs }
    \cup { [floors |-> [p \in 1..n |-> RawFloor(p, p - 1, "none")]] : n \in 1..MaxFloors }

Responses ==
    { [kind |-> "error", exc |-> "APITimeoutError"], [kind |-> "text"] }
    \cup { [kind |-> "json", raw |-> r] : r \in RawPayloads }

(***************************************************************************)
(* generate_blueprint, one action per step of a planning call.             *)
(***************************************************************************)
\* except Exception: every error the attempt can raise is a subclass of Exception
ExceptionClasses == {"APITimeoutError", "JSONDecodeError", "KeyError"}

\* Fault variant: a handler narrowed to the client library's own errors.
CaughtApiOnly(exc) == exc = "APITimeoutError"

Caught(exc) == exc \in ExceptionClasses

\* Fault variant: the candidate is returned without being validated.
AcceptsAny(cand) == cand # None

\* "if result and _validate_blueprint(result)"
Accepts(cand) == cand # None /\ _validate_blueprint(cand[1])

\* "if client:" guards the only request
MayRequest == pc = "INIT" /\ client

\* Fault variant: a rejection or a caught error starts the attempt again.
OnRejectedRetry == "INIT"

\* after a rejection or a caught error control falls through to the fallback
OnRejected == "DETERMINISTIC"

Idle ==
    /\ pc = "idle" /\ input = None /\ client = FALSE /\ response = None
    /\ candidate = None /\ result = None /\ path = "none" /\ raised = FALSE
    /\ requests = 0

\* the caller enters generate_blueprint; get_ai_client() reads the environment
Call(inp, env) ==
    /\ pc = "idle"
    /\ pc' = "INIT"
    /\ input' = inp
    /\ client' = env
    /\ UNCHANGED <<response, candidate, result, path, raised, requests, calls, runs, bp, verdict>>

\* no client: straight to the deterministic pipeline
NoClient ==
    /\ pc = "INIT" /\ ~client
    /\ pc' = "DETERMINISTIC"
    /\ UNCHANGED <<input, client, response, candidate, result, path, raised, requests,
                   calls, runs, bp, verdict>>

\* client.chat.completions.create(...): the single request, answered or failed
Request(resp) ==
    /\ MayRequest
    /\ requests' = requests + 1
    /\ response' = resp
    /\ pc' = "EXTERNAL_ATTEMPTED"
    /\ UNCHANGED <<input, client, candidate, result, path, raised, calls, runs, bp, verdict>>

\* the rest of _ai_generate_blueprint, inside the try block
Attempt ==
    /\ pc = "EXTERNAL_ATTEMPTED"
    /\ LET out == _ai_generate_blueprint(response, input)
       IN  IF out.tag = "raise"
           THEN IF Caught(out.exc)
                THEN pc' = OnRejected /\ UNCHANGED <<candidate, raised>>
                ELSE pc' = "DONE" /\ raised' = TRUE /\ UNCHANGED candidate
           ELSE /\ candidate' = IF out.tag = "data" THEN Some(out.data) ELSE None
                /\ pc' = "VALIDATING"
                /\ UNCHANGED raised
    /\ UNCHANGED <<input, client, response, result, path, requests, calls, runs, bp, verdict>>

\* line 24: accept the candidate, or fall through
Validate ==
    /\ pc = "VALIDATING"
    /\ IF Accepts(candidate)
       THEN result' = candidate[1] /\ path' = "external" /\ pc' = "DONE"
       ELSE pc' = OnRejected /\ UNCHANGED <<result, path>>
    /\ UNCHANGED <<input, client, response, candidate, raised, requests, calls, runs, bp, verdict>>

\* return _procedural_fallback(input)
Fallback ==
    /\ pc = "DETERMINISTIC"
    /\ result' = _procedural_fallback(input)
    /\ path' = "deterministic"
    /\ pc' = "DONE"
    /\ UNCHANGED <<input, client, response, candidate, raised, requests, calls, runs, bp, verdict>>

\* the caller has the result; the call's frame is gone
Return ==
    /\ pc = "DONE"
    /\ pc' = "idle" /\ input' = None /\ client' = FALSE /\ response' = None
    /\ candidate' = None /\ result' = None /\ path' = "none" /\ raised' = FALSE
    /\ requests' = 0
    /\ UNCHANGED <<calls, runs, bp, verdict>>

Init ==
    /\ Idle
    /\ calls = 0 /\ runs = {} /\ bp = None /\ verdict = "unchecked"

Next ==
    \/ \E inp \in ProjectInputs, env \in BOOLEAN : Call(inp, env)
    \/ NoClient
    \/ \E resp \in Responses : Request(resp)
    \/ Attempt
    \/ Validate
    \/ Fallback
    \/ Return

Spec == Init /\ [][Next]_vars

(***************************************************************************)
(* _validate_blueprint as a function of its argument: ValidateSpec hands   *)
(* it BlueprintData values built directly (so that widths and heights      *)
(* <= 0, which the max(2, ...) of the conversion never lets through, are   *)
(* covered).  Each floor has one of the shapes below.                      *)
(***************************************************************************)
FloorShapes == {"sound", "two_corridors", "no_corridor", "two_rooms", "no_rooms",
                "zero_width", "negative_width", "zero_height",
                "x_below", "x_edge", "y_below", "y_edge"}

ShapeRooms(p, shape) ==
    LET r == SoundRooms(p)
    IN  CASE shape = "two_corridors" -> << r[1], [r[2] EXCEPT !.type = "corridor"], r[3] >>
          [] shape = "no_corridor" -> << [r[1] EXCEPT !.type = "other"], r[2], r[3] >>
          [] shape = "two_rooms" -> << r[1], r[2] >>
          [] shape = "no_rooms" -> <<>>
          [] shape = "zero_width" -> << r[1], r[2], [r[3] EXCEPT !.width = 0] >>
          [] shape = "negative_width" -> << r[1], [r[2] EXCEPT !.width = -10], r[3] >>
          [] shape = "zero_height" -> << r[1], r[2], [r[3] EXCEPT !.height = 0] >>
          [] shape = "x_below" -> << r[1], r[2], [r[3] EXCEPT !.x = -11] >>
          [] shape = "x_edge" -> << r[1], r[2], [r[3] EXCEPT !.x = -10] >>
          [] shape = "y_below" -> << r[1], [r[2] EXCEPT !.y = -11], r[3] >>
          [] shape = "y_edge" -> << r[1], [r[2] EXCEPT !.y = -10], r[3] >>
          [] OTHER -> r

ShapedFloor(p, shape) ==
    [floor |-> p - 1,
     label |-> IF p = 1 THEN "Ground Floor" ELSE "Floor " \o ToString(p - 1),
     rooms |-> ShapeRooms(p, shape),
     flats |-> <<>>]

Blueprints ==
    UNION { { [floors |-> [p \in 1..n |-> ShapedFloor(p, shapes[p])], corridors |-> <<>>] :
                shapes \in [1..n -> FloorShapes] } :
            n \in 0..MaxFloors }

ValInit ==
    /\ Idle
    /\ calls = 0 /\ runs = {}
    /\ bp \in Blueprints
    /\ verdict = "unchecked"

CheckBlueprint ==
    /\ verdict = "unchecked"
    /\ verdict' = IF _validate_blueprint(bp) THEN "accepted" ELSE "rejected"
    /\ UNCHANGED <<pc, input, client, response, candidate, result, path, raised,
                   requests, calls, runs, bp>>

ValNext == CheckBlueprint

ValidateSpec == ValInit /\ [][ValNext]_vars

(***************************************************************************)
(* Repeated runs of the deterministic pipeline: DetSpec keeps the first    *)
(* run's input and output, lets any number of other runs happen before     *)
(* and after it, and runs the pipeline again on the remembered input.      *)
(***************************************************************************)
\* the run numbered calls: its input and what the pipeline returned
RunRecord(inp) == [input |-> inp, call |-> calls, data |-> _procedural_fallback(inp)]

\* a run whose output is kept
RunFirst(inp) ==
    /\ runs = {} /\ calls < MaxCalls
    /\ runs' = {RunRecord(inp)}
    /\ calls' = calls + 1
    /\ UNCHANGED <<pc, input, client, response, candidate, result, path, raised,
                   requests, bp, verdict>>

\* a run on any input (it returns a BlueprintData), its output dropped by the caller
RunOther(inp) ==
    /\ calls < MaxCalls
    /\ "floors" \in DOMAIN _procedural_fallback(inp)
    /\ calls' = calls + 1
    /\ UNCHANGED <<pc, input, client, response, candidate, result, path, raised,
                   requests, runs, bp, verdict>>

\* the pipeline again, on an input it has seen
RunAgain ==
    /\ runs # {} /\ calls < MaxCalls
    /\ runs' = runs \cup {RunRecord(r.input) : r \in runs}
    /\ calls' = calls + 1
    /\ UNCHANGED <<pc, input, client, response, candidate, result, path, raised,
                   requests, bp, verdict>>

DetNext ==
    \/ \E inp \in ProjectInputs : RunFirst(inp)
    \/ \E inp \in ProjectInputs : RunOther(inp)
    \/ RunAgain

DetSpec == Init /\ [][DetNext]_vars

(***************************************************************************)
(* The deterministic pipeline over the whole FlatConfig domain of          *)
(* models/project.py: LayoutSpec starts a call without a client at the     *)
(* point where generate_blueprint falls through to _procedural_fallback,   *)
(* for every flat configuration the input model admits.                    *)
(***************************************************************************)
max_flats_per_floor == 10
max_bedrooms == 5
max_bathrooms == 4
max_balconies == 4

\* 100: the minimum envelope 40.0 x 30.0; 1400: the depth alone raised to 30.0;
\* 2000: the default; 500000: the largest area (bath_w at its cap of 7)
LayoutAreas == {100, 1400, 2000, 500000}

LayoutInputs ==
    [area_sqft : LayoutAreas,
     floors : 1..MaxFloors,
     flat_config : [flats_per_floor : 1..max_flats_per_floor, bedrooms : 1..max_bedrooms,
                    bathrooms : 1..max_bathrooms, balconies : 0..max_balconies],
     amenities : [lift : BOOLEAN]]

LayoutInit ==
    /\ pc = "DETERMINISTIC" /\ input \in LayoutInputs /\ client = FALSE
    /\ response = None /\ candidate = None /\ result = None /\ path = "none"
    /\ raised = FALSE /\ requests = 0
    /\ calls = 0 /\ runs = {} /\ bp = None /\ verdict = "unchecked"

LayoutNext == Fallback

LayoutSpec == LayoutInit /\ [][LayoutNext]_vars

(***************************************************************************)
(* Properties.                                                             *)
(***************************************************************************)
Done == pc = "DONE" /\ ~raised

\* what the external attempt of the current call produced
Outcome == IF client THEN _ai_generate_blueprint(response, input) ELSE [tag |-> "none"]

CandidateAccepted == client /\ Outcome.tag = "data" /\ _validate_blueprint(Outcome.data)

\* C1: generate_blueprint returns the external candidate only when a client is
\* configured, the single request produced a candidate without raising and
\* _validate_blueprint accepted it; in every other case the result is exactly
\* _procedural_fallback(input).
C1_CandidateOrFallback ==
    Done =>
        /\ (path = "external") <=> CandidateAccepted
        /\ result = IF CandidateAccepted THEN Outcome.data ELSE _procedural_fallback(input)

\* a candidate was produced, the validator rejected it, the fallback's result came back
C1_Witness ==
    /\ Done /\ candidate # None /\ ~_validate_blueprint(candidate[1])
    /\ path = "deterministic" /\ result = _procedural_fallback(input)

\* C2: within one planning call the collaborator is requested at most once, never
\* again after a failure or a rejection, and not at all without a client: the call
\* then steps INIT -> DETERMINISTIC -> DONE.
C2_AtMostOneRequest ==
    [][ /\ requests' <= 1
        /\ (~client' => requests' = 0)
        /\ (requests' # requests => (pc = "INIT" /\ client) \/ pc = "DONE")
        /\ (pc = "INIT" /\ ~client => pc' = "DETERMINISTIC")
        /\ (pc = "DETERMINISTIC" => pc' = "DONE" /\ requests' = requests) ]_vars

\* the request failed and the call finished on the fallback without asking again
C2_Witness ==
    /\ Done /\ response # None /\ response.kind = "error"
    /\ requests = 1 /\ path = "deterministic"

Rank(p) ==
    CASE p = "INIT" -> 1
      [] p = "EXTERNAL_ATTEMPTED" -> 2
      [] p = "VALIDATING" -> 3
      [] p = "DETERMINISTIC" -> 4
      [] p = "DONE" -> 5
      [] OTHER -> 0

InCall == pc \in {"INIT", "EXTERNAL_ATTEMPTED", "VALIDATING", "DETERMINISTIC"}

IsBlueprintData(v) == v # None /\ {"floors", "corridors", "component_breakdown"} \subseteq DOMAIN v

\* C3: whatever the collaborator does (error, malformed text, payload without
\* floors or with missing keys, rejected candidate), no exception leaves
\* generate_blueprint, every step of a call moves it strictly forward (so a call
\* is over after at most four steps), and the call ends with a BlueprintData.
C3_NoErrorEscapes ==
    [][ /\ ~raised'
        /\ (pc' = "DONE" => IsBlueprintData(result'))
        /\ (InCall => Rank(pc') > Rank(pc)) ]_vars

\* the payload lacked a key, the KeyError was caught, the call returned the fallback
C3_Witness ==
    /\ Done /\ client /\ Outcome.tag = "raise" /\ Outcome.exc = "KeyError"
    /\ IsBlueprintData(result)

(***************************************************************************)
(* Properties of the layout that generate_blueprint returns.               *)
(***************************************************************************)
\* the envelope of the returned layout: the pipeline's own width and depth, or
\* the building_w / building_d the external path passes to _build_blueprint_data
ResultEnvelope ==
    IF path = "deterministic"
    THEN [width |-> EnvelopeWidth(input), depth |-> EnvelopeDepth(input)]
    ELSE [width |-> IF "building_width" \in DOMAIN response.raw
                    THEN response.raw.building_width ELSE ApproxWidth(input.area_sqft),
          depth |-> IF "building_depth" \in DOMAIN response.raw
                    THEN response.raw.building_depth ELSE ApproxDepth(input.area_sqft)]

\* inside [0, width] x [0, depth], with 0.1 of slack for rounding
InsideEnvelope(room, env) ==
    /\ 0 <= room.x /\ room.x + room.width <= env.width + 1
    /\ 0 <= room.y /\ room.y + room.height <= env.depth + 1

\* C4: every room of every floor of the returned layout lies inside the envelope.
C4_RoomsInsideEnvelope ==
    Done => \A k \in 1..Len(result.floors) :
                \A i \in 1..Len(result.floors[k].rooms) :
                    InsideEnvelope(result.floors[k].rooms[i], ResultEnvelope)

\* the two rectangles share positive area
Overlap(a, b) ==
    /\ a.x < b.x + b.width /\ b.x < a.x + a.width
    /\ a.y < b.y + b.height /\ b.y < a.y + a.height

\* the rooms of a floor that a flat entry lists
FlatRooms(floor, flat) ==
    {i \in 1..Len(floor.rooms) :
        \E j \in 1..Len(flat.rooms) : flat.rooms[j] = floor.rooms[i].id}

NoOverlapInFlats(floor) ==
    \A n \in 1..Len(floor.flats) :
        \A i, j \in FlatRooms(floor, floor.flats[n]) :
            i # j => ~Overlap(floor.rooms[i], floor.rooms[j])

\* C5: in a layout of the deterministic pipeline no two rooms of the same flat
\* overlap in positive area.
C5_NoOverlapWithinFlat ==
    Done /\ path = "deterministic" =>
        \A k \in 1..Len(result.floors) : NoOverlapInFlats(result.floors[k])

Corridors(floor) == {i \in 1..Len(floor.rooms) : floor.rooms[i].type = "corridor"}

\* C6: every floor of the returned layout has exactly one corridor room.
C6_ExactlyOneCorridor ==
    Done => \A k \in 1..Len(result.floors) : Cardinality(Corridors(result.floors[k])) = 1

\* all rooms of all floors, as (floor position, room position) pairs
RoomPositions(data) ==
    UNION { { <<k, i>> : i \in 1..Len(data.floors[k].rooms) } : k \in 1..Len(data.floors) }

\* C7: room identifiers are pairwise distinct over the whole returned layout.
C7_RoomIdsUnique ==
    Done => \A a, b \in RoomPositions(result) :
                a # b => result.floors[a[1]].rooms[a[2]].id # result.floors[b[1]].rooms[b[2]].id

\* what the claim lists as a defect of a candidate
Defective(b) ==
    \/ Len(b.floors) = 0
    \/ \E k \in 1..Len(b.floors) :
          \/ Len(b.floors[k].rooms) < 3
          \/ \E i \in 1..Len(b.floors[k].rooms) :
                LET room == b.floors[k].rooms[i]
                IN  room.width <= 0 \/ room.height <= 0 \/ room.x < -10 \/ room.y < -10

CorridorOnEveryFloor(b) == \A k \in 1..Len(b.floors) : Corridors(b.floors[k]) # {}

\* C8: _validate_blueprint rejects a candidate with no floors, or with a floor of
\* fewer than 3 rooms, or with any room of width <= 0, height <= 0, x < -1 or
\* y < -1 (one such room on one floor rejects the whole candidate), and accepts a
\* candidate with none of these defects and a corridor on every floor.
C8_ValidatorVerdict ==
    verdict # "unchecked" =>
        /\ (Defective(bp) => verdict = "rejected")
        /\ (~Defective(bp) /\ CorridorOnEveryFloor(bp) => verdict = "accepted")

\* a candidate of two floors or more whose first floor is sound and whose only
\* defect sits on a later floor has been rejected
C8_Witness ==
    /\ verdict = "rejected" /\ Len(bp.floors) >= 2
    /\ FloorValid(bp.floors[1]) /\ Defective(bp)

\* C9: the returned layout has exactly input.floors floors, with the floor indices
\* 0 .. input.floors - 1 each appearing once.
C9_AllFloorsPresent ==
    Done =>
        /\ Len(result.floors) = input.floors
        /\ \A f \in 0..(input.floors - 1) :
              Cardinality({k \in 1..Len(result.floors) : result.floors[k].floor = f}) = 1

Built == pc = "DONE" /\ path = "deterministic"

\* the envelope as the layout shows it: the corridor spans the width, and the
\* living rooms below the corridor end at the depth
ShownWidth(floor) == floor.rooms[1].width

ShownDepth(floor) ==
    LET ends == {floor.rooms[i].y + floor.rooms[i].height :
                    i \in {j \in 1..Len(floor.rooms) : floor.rooms[j].type = "living"}}
    IN  CHOOSE d \in ends : \A e \in ends : e <= d

CoreSuffixes == {"-corridor", "-lift", "-stairs"}

FlatRoomSuffixes ==
    {"-living", "-kitchen"}
    \cup {"-bed" \o ToString(b) : b \in 1..max_bedrooms}
    \cup {"-bath" \o ToString(b) : b \in 1..max_bathrooms}
    \cup {"-balcony" \o ToString(b) : b \in 1..max_balconies}

\* the rooms a floor has that no flat lists: the corridor and the core
CoreCount(floor) == Len(floor.rooms) - Len(Flatten([n \in 1..Len(floor.flats) |-> floor.flats[n].rooms]))

\* the ids of floor b are the ids of floor a with a's floor prefix replaced by b's
SameIdsButPrefix(a, b) ==
    /\ Len(a.flats) = Len(b.flats)
    /\ CoreCount(a) = CoreCount(b)
    /\ \A i \in 1..CoreCount(a) :
          \E s \in CoreSuffixes :
              /\ a.rooms[i].id = "f" \o ToString(a.floor) \o s
              /\ b.rooms[i].id = "f" \o ToString(b.floor) \o s
    /\ \A n \in 1..Len(a.flats) :
          /\ Len(a.flats[n].rooms) = Len(b.flats[n].rooms)
          /\ \A j \in 1..Len(a.flats[n].rooms) :
                \E s \in FlatRoomSuffixes :
                    /\ a.flats[n].rooms[j] = FlatPrefix(a.floor, n - 1) \o s
                    /\ b.flats[n].rooms[j] = FlatPrefix(b.floor, n - 1) \o s
    /\ \A fl \in {a, b} :
          [i \in 1..(Len(fl.rooms) - CoreCount(fl)) |-> fl.rooms[CoreCount(fl) + i].id]
              = Flatten([n \in 1..Len(fl.flats) |-> fl.flats[n].rooms])

SameGeometry(a, b) ==
    /\ Len(a.rooms) = Len(b.rooms)
    /\ \A i \in 1..Len(a.rooms) :
          [a.rooms[i] EXCEPT !.id = ""] = [b.rooms[i] EXCEPT !.id = ""]

\* C11: in the deterministic pipeline the envelope has width >= 40 and depth >= 30,
\* it is the same on every floor (the one computed from the area), and every floor
\* has the same rooms in the same order (number, types, names, x/y/width/height),
\* differing only in the floor prefix of the ids and in the floor label.
C11_EnvelopeSharedFloorsIdentical ==
    Built =>
        \A k \in 1..Len(result.floors) :
            LET floor == result.floors[k]
            IN  /\ ShownWidth(floor) >= 400 /\ ShownDepth(floor) >= 300
                /\ ShownWidth(floor) = ShownWidth(result.floors[1])
                /\ ShownDepth(floor) = ShownDepth(result.floors[1])
                /\ SameGeometry(result.floors[1], floor)
                /\ k > 1 => SameIdsButPrefix(result.floors[1], floor)
                /\ floor.floor = k - 1
                /\ floor.label = IF k = 1 THEN "Ground Floor" ELSE "Floor " \o ToString(k - 1)

\* a two-floor layout for the smallest area, where both minimums apply
C11_Witness ==
    /\ Built /\ input.area_sqft = 100 /\ Len(result.floors) >= 2
    /\ ShownWidth(result.floors[2]) = 400 /\ ShownDepth(result.floors[2]) = 300
    /\ result.floors[2].rooms[1].id = "f1-corridor"

\* the room of a floor with the given id
RoomById(floor, id) == floor.rooms[CHOOSE i \in 1..Len(floor.rooms) : floor.rooms[i].id = id]

\* a flat is above the corridor when its living room is
AboveCorridor(floor, flat) ==
    RoomById(floor, flat.flat_id \o "-living").y < floor.rooms[1].y

\* C12: for flats_per_floor = 1 the deterministic pipeline places one flat above
\* and one below the corridor (2 flats on the floor); for flats_per_floor from 2
\* to 10 both regions receive at least one flat and the floor has flats_per_floor
\* flats; flat ids are numbered consecutively from 1, top flats first.
C12_FlatsOnFloor ==
    Built =>
        \A k \in 1..Len(result.floors) :
            LET floor == result.floors[k]
                total == input.flat_config.flats_per_floor
                top == {n \in 1..Len(floor.flats) : AboveCorridor(floor, floor.flats[n])}
            IN  /\ Len(floor.flats) = IF total = 1 THEN 2 ELSE total
                /\ \A n \in 1..Len(floor.flats) :
                      floor.flats[n].flat_id = FlatPrefix(floor.floor, n - 1)
                /\ top # {} /\ top # 1..Len(floor.flats)
                /\ top = 1..Cardinality(top)
                /\ total = 1 => top = {1}

\* one flat was requested and the floor has two, the second one below the corridor
C12_Witness ==
    /\ Built /\ input.flat_config.flats_per_floor = 1
    /\ Len(result.floors[1].flats) = 2
    /\ ~AboveCorridor(result.floors[1], result.floors[1].flats[2])
    /\ result.floors[1].flats[2].flat_id = "f0-flat2"

\* the split as stated: top = ceil(total / 2), bottom = total - top, and a bottom
\* of 0 forced to 1 with top rebalanced
CeilSplit(total) ==
    LET top == (total + 1) \div 2
    IN  IF total - top = 0 THEN [top |-> Max(1, total - 1), bottom |-> 1]
        ELSE [top |-> top, bottom |-> total - top]

\* C13: for every flats_per_floor in 1..10 the split puts ceil(total / 2) flats
\* above the corridor and the rest below (a bottom of 0 forced to 1); for odd
\* totals >= 3 the top region receives the extra flat.
C13_TopGetsCeil ==
    Built =>
        \A k \in 1..Len(result.floors) :
            LET floor == result.floors[k]
                top == {n \in 1..Len(floor.flats) : AboveCorridor(floor, floor.flats[n])}
                split == CeilSplit(input.flat_config.flats_per_floor)
            IN  /\ Cardinality(top) = split.top
                /\ Len(floor.flats) - Cardinality(top) = split.bottom

\* the rectangles the loop over one side hands to _generate_center_corridor_flat
SideRects(n, width) ==
    [i \in 1..n |-> [x |-> FlatX(i - 1, n, width), w |-> FlatW(i - 1, n, width)]]

RECURSIVE SumWidths(_)
SumWidths(rects) == IF rects = <<>> THEN 0 ELSE Head(rects).w + SumWidths(Tail(rects))

ExactPartition(rects, width) ==
    /\ rects[1].x = 0
    /\ \A i \in 1..(Len(rects) - 1) : rects[i].x + rects[i].w = rects[i + 1].x
    /\ rects[Len(rects)].x + rects[Len(rects)].w = width
    /\ SumWidths(rects) = width

\* C14: on each side of the corridor the flat rectangles partition the region
\* exactly: the first flat starts at x = 0, each flat starts where the previous
\* one ends, the last flat ends at the envelope width, and the flat widths sum to
\* the envelope width.
C14_FlatsPartitionExactly ==
    Built =>
        LET floor == result.floors[1]
            top == Cardinality({n \in 1..Len(floor.flats) : AboveCorridor(floor, floor.flats[n])})
            width == ShownWidth(floor)
        IN  /\ ExactPartition(SideRects(top, width), width)
            /\ ExactPartition(SideRects(Len(floor.flats) - top, width), width)

\* the rectangle allotted to the n-th flat entry of a floor of the deterministic
\* layout: start_x, start_y, flat_width, flat_depth as the loops compute them
FlatRect(inp, n) ==
    LET width == EnvelopeWidth(inp)
        depth == EnvelopeDepth(inp)
        corridor_y == CorridorY(depth)
        flats_top == FlatsTop(inp.flat_config.flats_per_floor)
        flats_bottom == FlatsBottom(inp.flat_config.flats_per_floor)
    IN  IF n <= flats_top
        THEN [x |-> FlatX(n - 1, flats_top, width), y |-> 0,
              w |-> FlatW(n - 1, flats_top, width), d |-> corridor_y]
        ELSE [x |-> FlatX(n - flats_top - 1, flats_bottom, width),
              y |-> corridor_y + corridor_h,
              w |-> FlatW(n - flats_top - 1, flats_bottom, width),
              d |-> depth - corridor_y - corridor_h]

\* the rooms (as records) a flat entry lists, in the flat's order
RoomsOfFlat(floor, flat) == [j \in 1..Len(flat.rooms) |-> RoomById(floor, flat.rooms[j])]

RECURSIVE SlotWidths(_)
SlotWidths(rooms) ==
    IF rooms = <<>> THEN 0
    ELSE (IF Head(rooms).type \in {"bedroom", "bathroom", "balcony"} THEN Head(rooms).width ELSE 0)
         + SlotWidths(Tail(rooms))

\* C15: for every flat and every configuration the widths of the placed bedroom,
\* bathroom and balcony rooms sum to the flat's width within 0.1 (demanded widths
\* beyond the available width being scaled down before any room is placed).
C15_SlotWidthsFillFlat ==
    Built =>
        \A k \in 1..Len(result.floors) :
            \A n \in 1..Len(result.floors[k].flats) :
                LET slots == SlotWidths(RoomsOfFlat(result.floors[k], result.floors[k].flats[n]))
                    avail == FlatRect(input, n).w
                IN  slots - avail <= 1 /\ avail - slots <= 1

\* inside [x, x + w] x [y, y + d], with 0.1 of slack for rounding
InsideRect(room, rect) ==
    /\ rect.x <= room.x /\ room.x + room.width <= rect.x + rect.w + 1
    /\ rect.y <= room.y /\ room.y + room.height <= rect.y + rect.d + 1

\* C16: every room the deterministic pipeline lists in a flat lies inside that
\* flat's allotted rectangle [start_x, start_x + flat_width] x [start_y, start_y +
\* flat_depth], the first flat of each side (bathrooms placed from the plumbing
\* shaft at 15% of the envelope width) and four bathrooms included.
C16_RoomsInsideFlat ==
    Built =>
        \A k \in 1..Len(result.floors) :
            \A n \in 1..Len(result.floors[k].flats) :
                LET rooms == RoomsOfFlat(result.floors[k], result.floors[k].flats[n])
                IN  \A j \in 1..Len(rooms) : InsideRect(rooms[j], FlatRect(input, n))

RoomsOfType(floor, type) == {i \in 1..Len(floor.rooms) : floor.rooms[i].type = type}

\* the ids some flat entry of the floor lists
ListedIds(floor) ==
    UNION { {floor.flats[n].rooms[j] : j \in 1..Len(floor.flats[n].rooms)} :
            n \in 1..Len(floor.flats) }

\* C17: on every floor of the deterministic output there is exactly one staircase,
\* and an elevator exactly when the lift flag is set; without a lift the staircase
\* spans the core width (8.0), with a lift the lift and the staircase sit side by
\* side and together span it; the corridor, lift and staircase ids appear in no
\* flat's room list.
C17_CoreRooms ==
    Built =>
        \A k \in 1..Len(result.floors) :
            LET floor == result.floors[k]
                stairs == RoomsOfType(floor, "staircase")
                lifts == RoomsOfType(floor, "elevator")
            IN  /\ Cardinality(stairs) = 1
                /\ Cardinality(lifts) = IF input.amenities.lift THEN 1 ELSE 0
                /\ \A st \in stairs :
                      /\ lifts = {} => floor.rooms[st].width = 80
                      /\ \A li \in lifts :
                            /\ floor.rooms[li].x + floor.rooms[li].width = floor.rooms[st].x
                            /\ floor.rooms[li].width + floor.rooms[st].width = 80
                            /\ floor.rooms[li].y = floor.rooms[st].y
                /\ \A i \in stairs \cup lifts \cup RoomsOfType(floor, "corridor") :
                      floor.rooms[i].id \notin ListedIds(floor)

\* a floor with a lift: lift and staircase next to each other, none listed in a flat
C17_Witness ==
    /\ Built /\ input.amenities.lift
    /\ \E li \in RoomsOfType(result.floors[1], "elevator") :
          \E st \in RoomsOfType(result.floors[1], "staircase") :
              /\ result.floors[1].rooms[li].x + 40 = result.floors[1].rooms[st].x
              /\ result.floors[1].rooms[st].width = 40
    /\ "f0-stairs" \notin ListedIds(result.floors[1])

CountOfType(rooms, type) == Cardinality({j \in 1..Len(rooms) : rooms[j].type = type})

\* C18: every flat of the deterministic output, above or below the corridor, has
\* exactly one living room, one kitchen, `bedrooms` bedrooms, `bathrooms`
\* bathrooms and `balconies` balconies, 2 + bedrooms + bathrooms + balconies rooms
\* in all (the bottom-side guard bed_h > 3 never suppresses the bedrooms); for 2
\* flats of 2 bed, 2 bath, 1 balcony without a lift each floor has 1 corridor,
\* 1 staircase and at least 14 rooms.
C18_RoomCountsPerFlat ==
    Built =>
        \A k \in 1..Len(result.floors) :
            LET floor == result.floors[k]
                cfg == input.flat_config
            IN  /\ \A n \in 1..Len(floor.flats) :
                      LET rooms == RoomsOfFlat(floor, floor.flats[n])
                      IN  /\ CountOfType(rooms, "living") = 1
                          /\ CountOfType(rooms, "kitchen") = 1
                          /\ CountOfType(rooms, "bedroom") = cfg.bedrooms
                          /\ CountOfType(rooms, "bathroom") = cfg.bathrooms
                          /\ CountOfType(rooms, "balcony") = cfg.balconies
                          /\ Len(rooms) = 2 + cfg.bedrooms + cfg.bathrooms + cfg.balconies
                          /\ Cardinality({floor.flats[n].rooms[j] : j \in 1..Len(rooms)}) = Len(rooms)
                /\ (cfg.flats_per_floor = 2 /\ cfg.bedrooms = 2 /\ cfg.bathrooms = 2
                       /\ cfg.balconies = 1 /\ ~input.amenities.lift)
                      => /\ Cardinality(RoomsOfType(floor, "corridor")) = 1
                         /\ Cardinality(RoomsOfType(floor, "staircase")) = 1
                         /\ Len(floor.rooms) >= 14

\* the smallest envelope, five bedrooms: the flat below the corridor has them all
C18_Witness ==
    /\ Built /\ input.area_sqft = 100 /\ input.flat_config.bedrooms = 5
    /\ input.flat_config.flats_per_floor = 2
    /\ ~AboveCorridor(result.floors[1], result.floors[1].flats[2])
    /\ CountOfType(RoomsOfFlat(result.floors[1], result.floors[1].flats[2]), "bedroom") = 5

\* C19: the output of the deterministic pipeline, which generate_blueprint returns
\* without validating it, passes the validator: at least one floor, at least 3
\* rooms and a corridor on every floor, every room with width > 0 and height > 0,
\* no room with x < -1 or y < -1.
C19_FallbackPassesValidator ==
    Built =>
        /\ _validate_blueprint(result)
        /\ Len(result.floors) >= 1
        /\ \A k \in 1..Len(result.floors) :
              /\ Len(result.floors[k].rooms) >= 3
              /\ RoomsOfType(result.floors[k], "corridor") # {}
              /\ \A i \in 1..Len(result.floors[k].rooms) :
                    LET room == result.floors[k].rooms[i]
                    IN  room.width > 0 /\ room.height > 0 /\ room.x >= -10 /\ room.y >= -10

\* ten flats with four bathrooms, five bedrooms and four balconies each in the
\* smallest envelope: the narrowest rooms the pipeline makes, and balconies of
\* the top side kept at y = 0
C19_Witness ==
    /\ Built /\ input.area_sqft = 100
    /\ input.flat_config = [flats_per_floor |-> 10, bedrooms |-> 5, bathrooms |-> 4, balconies |-> 4]
    /\ RoomById(result.floors[1], "f0-flat1-balcony1").y = 0
    /\ _validate_blueprint(result)

RECURSIVE SumFlats(_)
SumFlats(floors) ==
    IF floors = <<>> THEN 0 ELSE Len(Head(floors).flats) + SumFlats(Tail(floors))

\* C20: in every BlueprintData generate_blueprint returns the summaries agree with
\* the layout: 'Total rooms' is the number of rooms over all floors, 'Total flats'
\* the number of flat entries over all floors, 'Floors' the number of floors, and
\* there is one corridor descriptor per floor, with the y and height of that
\* floor's corridor room.
C20_SummariesAgree ==
    Done =>
        /\ result.component_breakdown.TotalRooms = SumRooms(result.floors)
        /\ result.component_breakdown.TotalFlats = SumFlats(result.floors)
        /\ result.component_breakdown.Floors = Len(result.floors)
        /\ Len(result.corridors) = Len(result.floors)
        /\ \A k \in 1..Len(result.floors) :
              \E i \in RoomsOfType(result.floors[k], "corridor") :
                  /\ result.corridors[k].floor = result.floors[k].floor
                  /\ result.corridors[k].y = result.floors[k].rooms[i].y
                  /\ result.corridors[k].height = result.floors[k].rooms[i].height

=============================================================================
